---- MODULE Spec2Model ----
(***************************************************************************)
(* express-mongo-api: the user controller (registerUser, loginUser,        *)
(* getProfile), the authentication service (hashPassword,                  *)
(* comparePasswords, generateToken) and the authentication middleware      *)
(* (authenticateUser), as a state machine of concurrently handled          *)
(* requests over one account collection.                                   *)
(*                                                                         *)
(* Every await of a handler is a scheduling point: a handler runs from one *)
(* await to the next atomically (Node's single-threaded event loop), and   *)
(* the handlers of different requests interleave at the awaits.            *)
(*                                                                         *)
(* Strings that have an inner structure are kept as the sequence of their  *)
(* parts: an Authorization header as its space-separated words, a token as *)
(* its dot-separated segments, a bcrypt hash as its "$"-separated fields;   *)
(* a plaintext password is a string of one part.                           *)
(***************************************************************************)
EXTENDS Integers, Sequences, FiniteSets, TLC

VARIABLES users, req, pc, local, res, nextCalls, now, JWT_SECRET

vars == <<users, req, pc, local, res, nextCalls, now, JWT_SECRET>>

(* ------------------------------ bounds --------------------------------- *)
MaxReqs == 3
MaxTicks == 2
MaxInFlight == 2

(* ------------------------- program constants --------------------------- *)
COST == 10
TTL == 3600

(* ------------------------------ inputs --------------------------------- *)
Rid == 1..MaxReqs
Names == {"John Doe", "Jane Roe"}
Emails == {"john@example.com", "jane@example.com"}
Passwords == {<<"123456">>, <<"abcdef">>}
Secrets == {"your_jwt_secret_key_here", "another_secret"}
TickStep == TTL \div 2

Null == [null |-> TRUE]
NoLocal == [idle |-> TRUE]
NoResponse == [status |-> 0]

(* --------------------------- account storage --------------------------- *)
\* User.findOne({ email }): the stored document with that email, or null
findOne(email) ==
  IF \E u \in users : u.email = email
  THEN CHOOSE u \in users : u.email = email
  ELSE Null

\* User.findById(id)
findById(id) ==
  IF \E u \in users : u.id = id
  THEN CHOOSE u \in users : u.id = id
  ELSE Null

\* the unique index on email: an insert of a second document with an email
\* already stored fails with a duplicate-key error
DuplicateKey(doc) == \E u \in users : u.email = doc.email

\* .select("-password")
selectMinusPassword(doc) == [f \in (DOMAIN doc) \ {"password"} |-> doc[f]]

\* the schema's toJSON transform: delete ret.password
toJSON(doc) == [f \in (DOMAIN doc) \ {"password"} |-> doc[f]]

(* ------------------------ authentication service ----------------------- *)
\* the expensive key setup of bcrypt, an ideal one-way function of its inputs
EksBlowfish(cost, salt, key) == [cost |-> cost, salt |-> salt, key |-> key]

\* bcrypt.hash(password, salt): "$2a$<cost>$<salt><digest>"
bcryptHash(password, cost, salt) ==
  <<"2a", cost, salt, EksBlowfish(cost, salt, password)>>

\* bcrypt.genSalt: 16 random bytes, fresh for every call; the n-th call of
\* the model gets the n-th salt
genSalt(n) == <<"salt", n>>

\* hashPassword: genSalt(10), then hash with that salt
hashPassword(password, salt) == bcryptHash(password, COST, salt)

\* bcrypt.compare: re-derive the hash with the cost and salt embedded in the
\* stored hash and compare
comparePasswords(password, hashedPassword) ==
  /\ Len(hashedPassword) = 4
  /\ bcryptHash(password, hashedPassword[2], hashedPassword[3]) = hashedPassword

\* HMAC-SHA-256 of the payload under the secret, an ideal MAC
HS256(payload, secret) == [msg |-> payload, key |-> secret]

\* jwt.sign(payload, secret, { expiresIn, algorithm: "HS256" })
jwtSign(payload, secret, expiresIn, clock) ==
  LET full == [id |-> payload.id, email |-> payload.email,
               iat |-> clock, exp |-> clock + expiresIn]
  IN <<[alg |-> "HS256", typ |-> "JWT"], full, HS256(full, secret)>>

\* the token payload filled from the wrong field of the user
generateToken_NameForEmail(user, secret, clock) ==
  jwtSign([id |-> user.id, email |-> user.name], secret, TTL, clock)

\* generateToken(user)
generateToken(user, secret, clock) ==
  jwtSign([id |-> user.id, email |-> user.email], secret, TTL, clock)

\* expiry compared with > : a token still passes at its expires-at
jwtVerify_ExpiryInclusive(token, secret, clock) ==
  IF token = <<"">>
  THEN [ok |-> FALSE, name |-> "JsonWebTokenError", message |-> "jwt must be provided"]
  ELSE IF Len(token) # 3
  THEN [ok |-> FALSE, name |-> "JsonWebTokenError", message |-> "jwt malformed"]
  ELSE IF token[3] # HS256(token[2], secret)
  THEN [ok |-> FALSE, name |-> "JsonWebTokenError", message |-> "invalid signature"]
  ELSE IF clock > token[2].exp
  THEN [ok |-> FALSE, name |-> "TokenExpiredError", message |-> "jwt expired"]
  ELSE [ok |-> TRUE, payload |-> token[2]]

\* jwt.decode in place of jwt.verify: the signature is not checked
jwtVerify_DecodeOnly(token, secret, clock) ==
  IF token = <<"">>
  THEN [ok |-> FALSE, name |-> "JsonWebTokenError", message |-> "jwt must be provided"]
  ELSE IF Len(token) # 3
  THEN [ok |-> FALSE, name |-> "JsonWebTokenError", message |-> "jwt malformed"]
  ELSE IF clock >= token[2].exp
  THEN [ok |-> FALSE, name |-> "TokenExpiredError", message |-> "jwt expired"]
  ELSE [ok |-> TRUE, payload |-> token[2]]

\* jwt.verify(token, secret): structure, then signature, then expiry
jwtVerify(token, secret, clock) ==
  IF token = <<"">>
  THEN [ok |-> FALSE, name |-> "JsonWebTokenError", message |-> "jwt must be provided"]
  ELSE IF Len(token) # 3
  THEN [ok |-> FALSE, name |-> "JsonWebTokenError", message |-> "jwt malformed"]
  ELSE IF token[3] # HS256(token[2], secret)
  THEN [ok |-> FALSE, name |-> "JsonWebTokenError", message |-> "invalid signature"]
  ELSE IF clock >= token[2].exp
  THEN [ok |-> FALSE, name |-> "TokenExpiredError", message |-> "jwt expired"]
  ELSE [ok |-> TRUE, payload |-> token[2]]

(* ---------------------- authentication middleware --------------------- *)
\* only the presence of a two-word header is checked, not its scheme
startsWithBearer_AnyScheme(authHeader) == Len(authHeader) >= 2

\* authHeader?.startsWith("Bearer "): the header is present, its first word
\* is exactly "Bearer" and a space follows it
startsWithBearer(authHeader) ==
  /\ Len(authHeader) >= 2
  /\ authHeader[1] = "Bearer"

\* the decoded claim is not attached to the request before next is called
authenticate_NoAttach(authHeader, secret, clock) ==
  IF ~ startsWithBearer(authHeader)
  THEN [next |-> 0, attach |-> FALSE,
        res |-> [status |-> 401,
                 body |-> [message |-> "Access Denied", error |-> "No token provided"]]]
  ELSE LET token == authHeader[2]
           decoded == jwtVerify(token, secret, clock)
       IN IF decoded.ok
          THEN [next |-> 1, attach |-> FALSE, res |-> NoResponse]
          ELSE [next |-> 0, attach |-> FALSE,
                res |-> [status |-> 401,
                         body |-> [message |-> "Invalid Token", error |-> decoded.message]]]

\* the guard keeps a record of the tokens it has let through and refuses a
\* token it has seen before
authenticate_OneTime(authHeader, secret, clock) ==
  IF ~ startsWithBearer(authHeader)
  THEN [next |-> 0, attach |-> FALSE,
        res |-> [status |-> 401,
                 body |-> [message |-> "Access Denied", error |-> "No token provided"]]]
  ELSE LET token == authHeader[2]
           decoded == jwtVerify(token, secret, clock)
           seen == \E q \in Rid : /\ req[q].route = "profile"
                                  /\ req[q].headers.Authorization = authHeader
                                  /\ nextCalls[q] > 0
       IN IF decoded.ok /\ ~ seen
          THEN [next |-> 1, attach |-> TRUE, user |-> decoded.payload, res |-> NoResponse]
          ELSE [next |-> 0, attach |-> FALSE,
                res |-> [status |-> 401,
                         body |-> [message |-> "Invalid Token",
                                   error |-> IF decoded.ok THEN "jwt already used"
                                             ELSE decoded.message]]]

\* authenticateUser(req, res, next) on a request with that Authorization
\* header: the response it sends (none when it calls next), the number of
\* times it calls next, and the claim it attaches to req.user
authenticate(authHeader, secret, clock) ==
  IF ~ startsWithBearer(authHeader)
  THEN [next |-> 0, attach |-> FALSE,
        res |-> [status |-> 401,
                 body |-> [message |-> "Access Denied", error |-> "No token provided"]]]
  ELSE LET token == authHeader[2]
           decoded == jwtVerify(token, secret, clock)
       IN IF decoded.ok
          THEN [next |-> 1, attach |-> TRUE, user |-> decoded.payload, res |-> NoResponse]
          ELSE [next |-> 0, attach |-> FALSE,
                res |-> [status |-> 401,
                         body |-> [message |-> "Invalid Token", error |-> decoded.message]]]

(* --------------------------- user controller --------------------------- *)
\* the existence check dropped
UserExists_Dropped(existingUser) == FALSE

\* if (existingUser)
UserExists(existingUser) == existingUser # Null

\* the document built with the submitted password instead of its hash
NewUser_Plaintext(id, body, hashedPassword) ==
  [id |-> id, name |-> body.name, email |-> body.email, password |-> body.password]

\* new User({ name, email, password: hashedPassword }); the driver gives the
\* document a fresh _id (field id here), the number of the request that
\* builds it
NewUser(id, body, hashedPassword) ==
  [id |-> id, name |-> body.name, email |-> body.email, password |-> hashedPassword]

\* save not awaited: 201 whatever the insert does
RegisterSaveResponse_NotAwaited(saved) ==
  [status |-> 201, body |-> [message |-> "User registered successfully"]]

\* await newUser.save(); res.status(201)...  |  catch: res.status(500)...
RegisterSaveResponse(saved) ==
  IF saved
  THEN [status |-> 201, body |-> [message |-> "User registered successfully"]]
  ELSE [status |-> 500, body |-> [error |-> "Error registering user"]]

\* the password comparison left out
InvalidCredentials_NoCompare(user, password) == user = Null

\* !user || !(await comparePasswords(password, user.password))
InvalidCredentials(user, password) ==
  \/ user = Null
  \/ ~ comparePasswords(password, user.password)

\* the whole stored user copied into the login response
LoginResponse_WithPassword(token, user) ==
  [status |-> 200,
   body |-> [token |-> token,
             user |-> [id |-> user.id, name |-> user.name, email |-> user.email,
                       password |-> user.password]]]

\* res.json({ token, user: { id, name, email } })
LoginResponse(token, user) ==
  [status |-> 200,
   body |-> [token |-> token,
             user |-> [id |-> user.id, name |-> user.name, email |-> user.email]]]

\* User.findById(req.user.id).select("-password"), then res.json(user)
ProfileResponse(user) ==
  IF user = Null
  THEN [status |-> 404, body |-> [message |-> "User not found"]]
  ELSE [status |-> 200, body |-> toJSON(user)]

(* ------------------------------ clients -------------------------------- *)
\* the tokens that login responses have handed out so far
IssuedTokens ==
  {res[q].body.token : q \in {x \in Rid : req[x].route = "login" /\ res[x].status = 200}}

\* what a client can put after "Bearer ": a token it was given, such a token
\* with the identity in its payload changed, a token it signed itself with
\* a secret of its own, a string that is no token, nothing
ForgedTokens ==
  {<<t[1], [t[2] EXCEPT !.id = i], t[3]>> : t \in IssuedTokens, i \in Rid}
  \cup {<<t[1], t[2], HS256(t[2], s)>> : t \in IssuedTokens, s \in Secrets}
  \cup {<<"xyz">>, <<"">>}

AuthHeaders ==
  {<<>>, <<"Bearer">>}
  \cup {<<"Bearer", t>> : t \in IssuedTokens \cup ForgedTokens}
  \cup {<<"Token", t>> : t \in IssuedTokens \cup {<<"xyz">>}}
  \cup {<<"bearer", t>> : t \in IssuedTokens}

\* requests are numbered in the order of their arrival
Arrives(r) ==
  /\ pc[r] = "idle"
  /\ \A q \in Rid : q < r => pc[q] # "idle"
  /\ Cardinality({q \in Rid : pc[q] \notin {"idle", "done"}}) < MaxInFlight

Respond(r, response) ==
  /\ res' = [res EXCEPT ![r] = response]
  /\ pc' = [pc EXCEPT ![r] = "done"]
  /\ local' = [local EXCEPT ![r] = NoLocal]

(* ------------------------------- actions ------------------------------- *)
Init ==
  /\ users = {}
  /\ req = [r \in Rid |-> [route |-> "none"]]
  /\ pc = [r \in Rid |-> "idle"]
  /\ local = [r \in Rid |-> NoLocal]
  /\ res = [r \in Rid |-> NoResponse]
  /\ nextCalls = [r \in Rid |-> 0]
  /\ now = 0
  /\ JWT_SECRET = "your_jwt_secret_key_here"

\* POST /register arrives: destructure the body, issue User.findOne
registerUser(r) ==
  /\ Arrives(r)
  /\ \E name \in Names, email \in Emails, password \in Passwords :
       req' = [req EXCEPT ![r] = [route |-> "register",
                                  body |-> [name |-> name, email |-> email,
                                            password |-> password]]]
  /\ pc' = [pc EXCEPT ![r] = "register_findOne"]
  /\ UNCHANGED <<users, local, res, nextCalls, now, JWT_SECRET>>

\* findOne answers: 400 for an existing user, else start hashing
registerUser_findOne(r) ==
  /\ pc[r] = "register_findOne"
  /\ LET existingUser == findOne(req[r].body.email)
     IN IF UserExists(existingUser)
        THEN Respond(r, [status |-> 400, body |-> [message |-> "User already exists"]])
        ELSE /\ pc' = [pc EXCEPT ![r] = "register_hashPassword"]
             /\ UNCHANGED <<local, res>>
  /\ UNCHANGED <<users, req, nextCalls, now, JWT_SECRET>>

\* hashPassword answers: build the document, issue save
registerUser_hashPassword(r) ==
  /\ pc[r] = "register_hashPassword"
  /\ LET salt == genSalt(r)
         hashedPassword == hashPassword(req[r].body.password, salt)
     IN local' = [local EXCEPT ![r] =
                      [hashedPassword |-> hashedPassword,
                       newUser |-> NewUser(r, req[r].body, hashedPassword)]]
  /\ pc' = [pc EXCEPT ![r] = "register_save"]
  /\ UNCHANGED <<users, req, res, nextCalls, now, JWT_SECRET>>

\* save answers: the document is stored and 201 sent, or the insert was
\* refused by the unique index and the catch block sends 500
registerUser_save(r) ==
  /\ pc[r] = "register_save"
  /\ LET newUser == local[r].newUser
         saved == ~ DuplicateKey(newUser)
     IN /\ users' = IF saved THEN users \cup {newUser} ELSE users
        /\ Respond(r, RegisterSaveResponse(saved))
  /\ UNCHANGED <<req, nextCalls, now, JWT_SECRET>>

\* POST /login arrives: destructure the body, issue User.findOne
loginUser(r) ==
  /\ Arrives(r)
  /\ \E email \in Emails, password \in Passwords :
       req' = [req EXCEPT ![r] = [route |-> "login",
                                  body |-> [email |-> email, password |-> password]]]
  /\ pc' = [pc EXCEPT ![r] = "login_findOne"]
  /\ UNCHANGED <<users, local, res, nextCalls, now, JWT_SECRET>>

\* findOne answers: no user short-circuits to 400, else start comparing
loginUser_findOne(r) ==
  /\ pc[r] = "login_findOne"
  /\ LET user == findOne(req[r].body.email)
     IN IF user = Null
        THEN Respond(r, [status |-> 400, body |-> [message |-> "Invalid credentials"]])
        ELSE /\ local' = [local EXCEPT ![r] = [user |-> user]]
             /\ pc' = [pc EXCEPT ![r] = "login_comparePasswords"]
             /\ UNCHANGED res
  /\ UNCHANGED <<users, req, nextCalls, now, JWT_SECRET>>

\* comparePasswords answers: 400 on a mismatch, else the token and the user
\* (the catch block of loginUser is entered by no call here: findOne and
\* comparePasswords do not reject on the strings the routes let through)
loginUser_comparePasswords(r) ==
  /\ pc[r] = "login_comparePasswords"
  /\ LET user == local[r].user
     IN IF InvalidCredentials(user, req[r].body.password)
        THEN Respond(r, [status |-> 400, body |-> [message |-> "Invalid credentials"]])
        ELSE Respond(r, LoginResponse(generateToken(user, JWT_SECRET, now), user))
  /\ UNCHANGED <<users, req, nextCalls, now, JWT_SECRET>>

\* GET /profile arrives and runs through authenticateUser, which either
\* rejects it or attaches req.user and calls next (getProfile, which issues
\* User.findById)
authenticateUser(r) ==
  /\ Arrives(r)
  /\ \E authHeader \in AuthHeaders :
       LET out == authenticate(authHeader, JWT_SECRET, now)
           request == [route |-> "profile", headers |-> [Authorization |-> authHeader]]
       IN /\ req' = [req EXCEPT ![r] =
                       IF out.attach
                       THEN [route |-> "profile",
                             headers |-> [Authorization |-> authHeader],
                             user |-> out.user]
                       ELSE request]
          /\ nextCalls' = [nextCalls EXCEPT ![r] = out.next]
          /\ IF out.next > 0
             THEN /\ pc' = [pc EXCEPT ![r] = "profile_findById"]
                  /\ res' = [res EXCEPT ![r] = out.res]
                  /\ UNCHANGED local
             ELSE Respond(r, out.res)
  /\ UNCHANGED <<users, now, JWT_SECRET>>

\* findById answers: 404 or the profile; reading req.user.id of a request
\* without req.user throws, and the catch block sends 500
getProfile(r) ==
  /\ pc[r] = "profile_findById"
  /\ IF "user" \notin DOMAIN req[r]
     THEN Respond(r, [status |-> 500, body |-> [error |-> "Error fetching profile"]])
     ELSE LET user == findById(req[r].user.id)
          IN Respond(r, ProfileResponse(IF user = Null THEN Null
                                        ELSE selectMinusPassword(user)))
  /\ UNCHANGED <<users, req, nextCalls, now, JWT_SECRET>>

\* time passes
Tick ==
  /\ now + TickStep <= MaxTicks * TickStep
  /\ now' = now + TickStep
  /\ UNCHANGED <<users, req, pc, local, res, nextCalls, JWT_SECRET>>

Next ==
  \/ \E r \in Rid : registerUser(r)
  \/ \E r \in Rid : registerUser_findOne(r)
  \/ \E r \in Rid : registerUser_hashPassword(r)
  \/ \E r \in Rid : registerUser_save(r)
  \/ \E r \in Rid : loginUser(r)
  \/ \E r \in Rid : loginUser_findOne(r)
  \/ \E r \in Rid : loginUser_comparePasswords(r)
  \/ \E r \in Rid : authenticateUser(r)
  \/ \E r \in Rid : getProfile(r)
  \/ Tick

Spec == Init /\ [][Next]_vars

\* a server started on a collection that already holds an account, stored
\* by a registration of an earlier run
SeedUser ==
  NewUser(0, [name |-> "John Doe", email |-> "john@example.com"],
          hashPassword(<<"123456">>, genSalt(0)))

InitSeeded ==
  /\ users = {SeedUser}
  /\ req = [r \in Rid |-> [route |-> "none"]]
  /\ pc = [r \in Rid |-> "idle"]
  /\ local = [r \in Rid |-> NoLocal]
  /\ res = [r \in Rid |-> NoResponse]
  /\ nextCalls = [r \in Rid |-> 0]
  /\ now = 0
  /\ JWT_SECRET = "your_jwt_secret_key_here"

SpecSeeded == InitSeeded /\ [][Next]_vars

(* ------------------------------- claims -------------------------------- *)
EmailStored(email) == \E u \in users : u.email = email

StepOf(r) == pc'[r] # pc[r]

DuplicateResponse == [status |-> 400, body |-> [message |-> "User already exists"]]

InvalidCredentialsResponse == [status |-> 400, body |-> [message |-> "Invalid credentials"]]

\* C1: a registerUser request whose email already belongs to a stored
\* account is answered 400 "User already exists" by its next step, which
\* ends the request, and that step leaves the account collection exactly as
\* it was (nothing added, no stored document changed).
C1_DuplicateRejected ==
  [][\A r \in Rid :
       (pc[r] = "register_findOne" /\ EmailStored(req[r].body.email) /\ StepOf(r))
       => /\ res'[r] = DuplicateResponse
          /\ pc'[r] = "done"
          /\ users' = users]_vars

C1_Witness ==
  \E r \in Rid :
    /\ req[r].route = "register"
    /\ pc[r] = "done"
    /\ res[r] = DuplicateResponse
    /\ \E u \in users : u.email = req[r].body.email /\ u.id # r /\ u.name # req[r].body.name

\* C2: in every reachable state the account collection holds at most one
\* account per email, and at most one registerUser request per email has
\* been answered 201.
C2_UniqueEmail ==
  /\ \A u, v \in users : u.email = v.email => u = v
  /\ \A r, q \in Rid :
       (/\ req[r].route = "register" /\ req[q].route = "register"
        /\ res[r].status = 201 /\ res[q].status = 201
        /\ req[r].body.email = req[q].body.email)
       => r = q

\* two requests for one email that both passed the findOne check: the first
\* got 201, the second was refused by the unique index
C2_Witness ==
  \E r, q \in Rid :
    /\ r # q
    /\ req[r].route = "register" /\ req[q].route = "register"
    /\ req[r].body.email = req[q].body.email
    /\ res[r].status = 201
    /\ res[q].status = 500

\* C3: the password field of every stored account is hashPassword of the
\* plaintext its registration request submitted and is no plaintext; an
\* account enters the collection only by the save step of a request whose
\* hashing has completed, and it is the document that carries that hash.
C3_StoredHashed ==
  \A u \in users :
    /\ req[u.id].route = "register"
    /\ u.password = hashPassword(req[u.id].body.password, genSalt(u.id))
    /\ u.password \notin Passwords
    /\ \A q \in Rid : req[q].route \in {"register", "login"}
                      => u.password # req[q].body.password

C3_HashBeforeSave ==
  [][\A r \in Rid :
       (StepOf(r) /\ users' # users)
       => /\ pc[r] = "register_save"
          /\ local[r].hashedPassword = hashPassword(req[r].body.password, genSalt(r))
          /\ users' = users \cup {[id |-> r, name |-> req[r].body.name,
                                   email |-> req[r].body.email,
                                   password |-> local[r].hashedPassword]}]_vars

C3_HashedNeverPlain == []C3_StoredHashed /\ C3_HashBeforeSave

C3_Witness ==
  \E u \in users : pc[u.id] = "done" /\ res[u.id].status = 201

\* C4: the step that ends a loginUser request answers with a token exactly
\* when an account with the given email is stored and the given password is
\* the one that account was registered with; otherwise it answers 400
\* "Invalid credentials" without a token.
C4_LoginIffCredentials ==
  [][\A r \in Rid :
       (req[r].route = "login" /\ StepOf(r) /\ pc'[r] = "done")
       => IF \E u \in users : /\ u.email = req[r].body.email
                              /\ req[u.id].body.password = req[r].body.password
          THEN /\ res'[r].status = 200
               /\ "token" \in DOMAIN res'[r].body
          ELSE res'[r] = InvalidCredentialsResponse]_vars

\* one account; a login with its password got a token, a login with another
\* password got 400
C4_Witness ==
  \E u \in users : \E r, q \in Rid :
    /\ req[r].route = "login" /\ req[q].route = "login"
    /\ req[r].body.email = u.email /\ req[q].body.email = u.email
    /\ req[r].body.password = req[u.id].body.password
    /\ req[q].body.password # req[u.id].body.password
    /\ res[r].status = 200 /\ "token" \in DOMAIN res[r].body
    /\ res[q] = InvalidCredentialsResponse

IdentityClaim(payload) == [id |-> payload.id, email |-> payload.email]

IsProfile(r) == req[r].route = "profile"

AuthorizationOf(r) == req[r].headers.Authorization

\* a three-segment token whose signature is the server's over its payload
Genuine(t) == Len(t) = 3 /\ t[3] = HS256(t[2], JWT_SECRET)

\* a three-segment token signed over its payload with another secret
SignedWithOther(t) ==
  Len(t) = 3 /\ \E s \in Secrets \ {JWT_SECRET} : t[3] = HS256(t[2], s)

RejectedWith(r, message, error) ==
  /\ pc[r] = "done"
  /\ res[r].status = 401
  /\ res[r].body.message = message
  /\ res[r].body.error = error
  /\ nextCalls[r] = 0
  /\ "user" \notin DOMAIN req[r]

C6_GuardStep ==
  [][\A r \in Rid :
       (/\ pc[r] = "idle" /\ StepOf(r) /\ req'[r].route = "profile"
        /\ Len(req'[r].headers.Authorization) = 2
        /\ req'[r].headers.Authorization[1] = "Bearer"
        /\ Genuine(req'[r].headers.Authorization[2]))
       => IF now < req'[r].headers.Authorization[2][2].exp
          THEN pc'[r] = "profile_findById" /\ nextCalls'[r] = 1 /\ res'[r] = NoResponse
          ELSE /\ pc'[r] = "done"
               /\ res'[r].status = 401
               /\ res'[r].body.error = "jwt expired"
               /\ nextCalls'[r] = 0
               /\ "user" \notin DOMAIN req'[r]]_vars

C6_ClockMonotone == [][now' >= now]_vars

C6_ExpiredStaysExpired ==
  /\ \A t \in IssuedTokens : t[2].exp = t[2].iat + 3600
  /\ \A r, q \in Rid :
       (/\ r < q /\ IsProfile(r) /\ IsProfile(q)
        /\ AuthorizationOf(r) = AuthorizationOf(q)
        /\ RejectedWith(r, "Invalid Token", "jwt expired"))
       => nextCalls[q] = 0 /\ res[q].status = 401

C6_Expiry == C6_GuardStep /\ C6_ClockMonotone /\ []C6_ExpiredStaysExpired

\* one token, accepted in one request and rejected as expired in a later one
C6_Witness ==
  \E r, q \in Rid :
    /\ r < q /\ IsProfile(r) /\ IsProfile(q)
    /\ AuthorizationOf(r) = AuthorizationOf(q)
    /\ nextCalls[r] = 1 /\ res[r].status = 200
    /\ RejectedWith(q, "Invalid Token", "jwt expired")

\* C7: a token signed with a secret other than the one it is verified with
\* is never accepted: verification fails with "invalid signature", and the
\* guard answers the request 401 without calling next or attaching a claim.
C7_WrongSecretRejected ==
  /\ \A t \in IssuedTokens, s \in Secrets \ {JWT_SECRET} :
       \A c \in {t[2].iat, now} :
         LET decoded == jwtVerify(t, s, c)
         IN ~ decoded.ok /\ decoded.message = "invalid signature"
  /\ \A r \in Rid :
       (/\ IsProfile(r)
        /\ Len(AuthorizationOf(r)) = 2
        /\ AuthorizationOf(r)[1] = "Bearer"
        /\ SignedWithOther(AuthorizationOf(r)[2]))
       => RejectedWith(r, "Invalid Token", "invalid signature")

\* a request with an unexpired token signed with another secret, rejected
C7_Witness ==
  \E r \in Rid :
    /\ IsProfile(r)
    /\ Len(AuthorizationOf(r)) = 2
    /\ AuthorizationOf(r)[1] = "Bearer"
    /\ SignedWithOther(AuthorizationOf(r)[2])
    /\ now < AuthorizationOf(r)[2][2].exp
    /\ RejectedWith(r, "Invalid Token", "invalid signature")

\* C8: a request without Authorization header, or with one that does not
\* begin with "Bearer " (another scheme, another case, no space after the
\* word), is answered 401 "Access Denied" with next never called and no claim
\* attached; getProfile runs only in requests in which the guard called
\* next once, attached a claim and sent nothing.
C8_NoTokenRejected ==
  /\ \A r \in Rid :
       (IsProfile(r) /\ (Len(AuthorizationOf(r)) < 2 \/ AuthorizationOf(r)[1] # "Bearer"))
       => RejectedWith(r, "Access Denied", "No token provided")
  /\ \A r \in Rid :
       (pc[r] = "profile_findById" \/ (IsProfile(r) /\ res[r].status \in {200, 404, 500}))
       => /\ nextCalls[r] = 1
          /\ "user" \in DOMAIN req[r]
          /\ Len(AuthorizationOf(r)) = 2
          /\ AuthorizationOf(r)[1] = "Bearer"
          /\ Genuine(AuthorizationOf(r)[2])

\* a request without header and one with "Token <an unexpired issued token>",
\* both rejected
C8_Witness ==
  /\ \E r \in Rid :
       IsProfile(r) /\ AuthorizationOf(r) = <<>>
       /\ RejectedWith(r, "Access Denied", "No token provided")
  /\ \E r \in Rid :
       /\ IsProfile(r)
       /\ Len(AuthorizationOf(r)) = 2
       /\ AuthorizationOf(r)[1] = "Token"
       /\ AuthorizationOf(r)[2] \in IssuedTokens
       /\ now < AuthorizationOf(r)[2][2].exp
       /\ RejectedWith(r, "Access Denied", "No token provided")

\* C9: on a request with "Bearer " and an issued, unexpired token the guard
\* attaches to req.user the id and email the token was issued for, calls
\* next once and sends no response; next is never called twice, and a
\* request with an attached claim is never answered 401.
C9_GuardStep ==
  [][\A r \in Rid :
       (/\ pc[r] = "idle" /\ StepOf(r) /\ req'[r].route = "profile"
        /\ Len(req'[r].headers.Authorization) = 2
        /\ req'[r].headers.Authorization[1] = "Bearer"
        /\ req'[r].headers.Authorization[2] \in IssuedTokens
        /\ now < req'[r].headers.Authorization[2][2].exp)
       => /\ "user" \in DOMAIN req'[r]
          /\ \A q \in Rid :
               (/\ req[q].route = "login" /\ res[q].status = 200
                /\ res[q].body.token = req'[r].headers.Authorization[2])
               => IdentityClaim(req'[r].user)
                    = [id |-> res[q].body.user.id, email |-> res[q].body.user.email]
          /\ nextCalls'[r] = 1
          /\ res'[r] = NoResponse
          /\ pc'[r] = "profile_findById"]_vars

C9_OnceAndNoRejection ==
  \A r \in Rid :
    /\ nextCalls[r] <= 1
    /\ (IsProfile(r) /\ "user" \in DOMAIN req[r])
         => nextCalls[r] = 1 /\ res[r].status # 401

C9_ValidAccepted == C9_GuardStep /\ []C9_OnceAndNoRejection

C9_Witness ==
  \E r \in Rid :
    /\ IsProfile(r)
    /\ Len(AuthorizationOf(r)) = 2
    /\ AuthorizationOf(r)[1] = "Bearer"
    /\ AuthorizationOf(r)[2] \in IssuedTokens
    /\ "user" \in DOMAIN req[r]
    /\ nextCalls[r] = 1
    /\ pc[r] = "done"

NoCredentialIn(body) ==
  /\ DOMAIN body \subseteq {"message", "error", "token", "user", "id", "name", "email"}
  /\ "user" \in DOMAIN body => DOMAIN body.user = {"id", "name", "email"}
  /\ "token" \in DOMAIN body => DOMAIN body.token[2] = {"id", "email", "iat", "exp"}

\* C10: a 200 response of getProfile carries the id, name and email of the
\* stored account whose id is req.user.id and has no password field; no
\* response of any handler has a field holding a stored hash or a password.
C10_NoHashInResponses ==
  /\ \A r \in Rid :
       (IsProfile(r) /\ res[r].status = 200)
       => \E u \in users :
            /\ u.id = req[r].user.id
            /\ res[r].body.id = u.id
            /\ res[r].body.name = u.name
            /\ res[r].body.email = u.email
            /\ "password" \notin DOMAIN res[r].body
  /\ \A r \in Rid : res[r].status # 0 => NoCredentialIn(res[r].body)

\* a profile answered 200 while two accounts are stored
C10_Witness ==
  /\ Cardinality(users) >= 2
  /\ \E r \in Rid : IsProfile(r) /\ res[r].status = 200

\* the verifier failure a presented token runs into, read off the token:
\* not three segments, a signature that is not the server's over the
\* payload, an expires-at that the clock of the rejection had reached
PresentedToken(r) == AuthorizationOf(r)[2]

PassedPrefix(r) ==
  IsProfile(r) /\ Len(AuthorizationOf(r)) = 2 /\ AuthorizationOf(r)[1] = "Bearer"

MalformedToken(t) == Len(t) # 3 /\ t # <<"">>

BadSignatureToken(t) == Len(t) = 3 /\ t[3] # HS256(t[2], JWT_SECRET)

ExpiredToken(t) == Genuine(t) /\ t[2].exp <= now

VerifierFailed(r) ==
  /\ PassedPrefix(r)
  /\ pc[r] = "done"
  /\ nextCalls[r] = 0
  /\ \/ MalformedToken(PresentedToken(r))
     \/ BadSignatureToken(PresentedToken(r))
     \/ ExpiredToken(PresentedToken(r))

\* C11: the responses of the guard to an expired token, a malformed token
\* and a token with an invalid signature are identical, status and body.
C11_UniformRejection ==
  \A r, q \in Rid :
    (VerifierFailed(r) /\ VerifierFailed(q)) => res[r] = res[q]

\* C12: the account collection changes only in the step in which a
\* registerUser request is answered 201, and then by exactly one added
\* account; every other step (login, guard, getProfile, a request answered
\* 400, 401, 404 or 500, the passing of time) leaves it as it is.  Whether
\* the guard lets a request through is a function of the presented token,
\* the signing secret and the clock alone: it does so exactly when the token
\* carries the server's signature over its payload and the clock is before
\* its expires-at, whatever requests came before.
C12_StoreFrame ==
  [][/\ \A r \in Rid :
          StepOf(r) =>
            IF req'[r].route = "register" /\ res'[r].status = 201
            THEN /\ Cardinality(users') = Cardinality(users) + 1
                 /\ users \subseteq users'
            ELSE users' = users
     /\ (\A r \in Rid : ~ StepOf(r)) => users' = users]_vars

C12_AcceptanceStateless ==
  [][\A r \in Rid :
       (pc[r] = "idle" /\ StepOf(r) /\ req'[r].route = "profile")
       => LET h == req'[r].headers.Authorization
          IN /\ nextCalls'[r] = 1
                  <=> /\ Len(h) = 2
                      /\ h[1] = "Bearer"
                      /\ Genuine(h[2])
                      /\ now < h[2][2].exp
             /\ nextCalls'[r] = 0 <=> res'[r].status = 401
             /\ nextCalls'[r] \in {0, 1}]_vars

C12_FrameAndStateless == C12_StoreFrame /\ C12_AcceptanceStateless

\* a registration answered 201 next to the account stored before it, a login
\* that left the two accounts alone, and its token let through
C12_Witness ==
  /\ Cardinality(users) = 2
  /\ \E r \in Rid : req[r].route = "register" /\ res[r].status = 201
  /\ \E r \in Rid : req[r].route = "login" /\ res[r].status = 200
  /\ \E r \in Rid : PassedPrefix(r) /\ nextCalls[r] = 1 /\ res[r].status = 200

====
